---- MODULE Spec2Model ----
(***************************************************************************)
(* A model of pipecheetah's two protocol-bearing pieces:                   *)
(*   - the client duplex streamer, audio_stream in                         *)
(*     src/client/python/test_client.py: the capture thread's              *)
(*     mic_callback, the event loop's safe_put handles, the sender task,   *)
(*     the receive loop and the shutdown that follows it;                  *)
(*   - the server frame codec, RawPCMSerializer in src/bot.py.             *)
(* The two run in different processes and share no state: Spec is the      *)
(* client, SerializerSpec the codec.                                       *)
(***************************************************************************)
EXTENDS Integers, Sequences, FiniteSets, TLC

(***************************************************************************)
(* Bounds of the model.                                                    *)
(***************************************************************************)
\* asyncio.Queue(maxsize=...) of test_client.py:11.  The program's value is
\* 100; the model runs the same code with a small capacity so that a full
\* queue is reached within a few capture callbacks.
QueueMaxsize == 2
\* The number of buffers the audio subsystem delivers to mic_callback.
MaxCaptured == 4
\* The number of frames the server sends to the client.
MaxRecv == 2
\* The number of payloads and setup calls the codec is driven with.
MaxSerOps == 4
\* save_audio calls explored, and the longest accumulated audio, in bytes.
MaxSaves == 2
MaxAudioLen == 2

(***************************************************************************)
(* Program constants                                                       *)
(***************************************************************************)
\* RawPCMSerializer.__init__(self, sample_rate=16000, channels=1)
DefaultSampleRate == 16000
DefaultChannels == 1

VARIABLES
    \* ---- client: capture thread to event loop ----
    captured,        \* buffers delivered to mic_callback so far; chunk k is the k-th
    ready,           \* safe_put handles scheduled by call_soon_threadsafe, not yet run
    overflowPrints,  \* "Audio buffer overflow!" lines printed so far
    micActive,       \* the sd.InputStream of the with block is open
    micSawFullStalled, \* history: a mic_callback ran with the queue full and the sender in a send
    \* ---- client: the outbound queue ----
    queue,           \* asyncio.Queue contents, oldest first
    unfinished,      \* asyncio.Queue._unfinished_tasks
    putError,        \* a put_nowait has raised QueueFull
    accepted,        \* history: chunks put into the queue, in order
    dropped,         \* history: chunks safe_put discarded, in order
    \* ---- client: the sender task ----
    senderPc,        \* "get" | "send" | "failed" | "cancelled"
    senderData,      \* the chunk inside websocket.send, 0 when none
    senderExc,       \* the exception the sender task ended with, "none" when none
    cancelledBy,     \* who called sender_task.cancel(): "none" | "audio_stream" | "runner"
    sent,            \* history: chunks handed to websocket.send, in order
    \* ---- client: the connection and the receive loop ----
    conn,            \* "open" | "closedOK" | "closedError"
    inbox,           \* frames the connection has buffered for recv()
    serverSent,      \* frames the server has sent so far (a count)
    received,        \* history: frames recv() returned, in order
    played,          \* history: buffers written to the speaker, in order
    mainPc,          \* "recv" | "write" | "await" | "returned" | "raised"
    exitPath,        \* how the receive loop ended: "none" | "closedOK" | "cancelled" | "interrupted" | "error"
    mainExc,         \* the exception audio_stream ended with, "none" when none
    \* ---- server: RawPCMSerializer ----
    sample_rate,     \* self._sample_rate
    channels,        \* self._channels
    serOps,          \* calls made on the serializer so far (a count)
    lastCall,        \* history: the last call, its argument, result and the parameters before it
    lastCtl,         \* history: the last call that set the negotiated parameters
    atMalformed,     \* history: the parameters before the last unparseable text, while no call has set them since
    firstBinary,     \* history: the tags of the first binary payload deserialized
    \* ---- server: the recording ----
    wavWrites,       \* the files save_audio has written, in order
    lastSave         \* history: the last save_audio call, its arguments and the files before it

clientVars == <<captured, ready, overflowPrints, micActive, micSawFullStalled,
                queue, unfinished, putError, accepted, dropped,
                senderPc, senderData, senderExc, cancelledBy, sent,
                conn, inbox, serverSent, received, played, mainPc, exitPath, mainExc>>
serVars == <<sample_rate, channels, serOps, lastCall, lastCtl, atMalformed, firstBinary>>
wavVars == <<wavWrites, lastSave>>
vars == <<clientVars, serVars, wavVars>>

(***************************************************************************)
(* Sequences                                                               *)
(***************************************************************************)
IsPrefix(s, t) == Len(s) <= Len(t) /\ \A i \in 1..Len(s) : s[i] = t[i]
Range(s) == {s[i] : i \in 1..Len(s)}
NoDuplicates(s) == \A i, j \in 1..Len(s) : s[i] = s[j] => i = j

(***************************************************************************)
(* The outbound queue: asyncio.Queue(maxsize=QueueMaxsize)                 *)
(***************************************************************************)
\* queue.full(): qsize() >= maxsize (maxsize is positive here).
full(q) == Len(q) >= QueueMaxsize

\* queue.put_nowait(item): raises QueueFull on a full queue, else appends.
put_nowait(q, item) ==
    IF full(q) THEN [queue |-> q, raised |-> TRUE, put |-> FALSE]
    ELSE [queue |-> Append(q, item), raised |-> FALSE, put |-> TRUE]

\* A safe_put that trusts the queue to have room.
safe_put_unchecked(q, item) == put_nowait(q, item)

\* A safe_put that makes room by evicting the oldest queued chunk.
safe_put_evicting(q, item) ==
    IF ~full(q) THEN put_nowait(q, item) ELSE put_nowait(Tail(q), item)

\* A safe_put that gives up one chunk before the queue is full.
safe_put_early(q, item) ==
    IF Len(q) < QueueMaxsize - 1 THEN put_nowait(q, item)
    ELSE [queue |-> q, raised |-> FALSE, put |-> FALSE]

\* safe_put(item), the handle body: put only when the queue is not full,
\* otherwise return without doing anything.
safe_put(q, item) ==
    IF ~full(q) THEN put_nowait(q, item)
    ELSE [queue |-> q, raised |-> FALSE, put |-> FALSE]

\* A get that hands out the newest chunk instead of the oldest.
queue_get_newest(q) == [item |-> q[Len(q)], queue |-> SubSeq(q, 1, Len(q) - 1)]

\* queue.get() once the queue is non-empty: the oldest chunk.
queue_get(q) == [item |-> Head(q), queue |-> Tail(q)]

(***************************************************************************)
(* The capture thread                                                      *)
(***************************************************************************)
\* A mic_callback that puts into the queue itself and waits for room.
MicCallbackBlocking ==
    /\ micActive
    /\ captured < MaxCaptured
    /\ ~full(queue)
    /\ \E input_overflow \in BOOLEAN :
        /\ overflowPrints' = overflowPrints + (IF input_overflow THEN 1 ELSE 0)
        /\ captured' = captured + 1
        /\ queue' = Append(queue, captured + 1)
        /\ accepted' = Append(accepted, captured + 1)
        /\ unfinished' = unfinished + 1
        /\ micSawFullStalled' = micSawFullStalled
    /\ UNCHANGED <<ready, micActive, putError, dropped,
                   senderPc, senderData, senderExc, cancelledBy, sent,
                   conn, inbox, serverSent, received, played, mainPc, exitPath, mainExc>>
    /\ UNCHANGED <<serVars, wavVars>>

\* A mic_callback whose handle is run before the handles already scheduled.
MicCallbackPrepending ==
    /\ micActive
    /\ captured < MaxCaptured
    /\ \E input_overflow \in BOOLEAN :
        /\ overflowPrints' = overflowPrints + (IF input_overflow THEN 1 ELSE 0)
        /\ captured' = captured + 1
        /\ ready' = <<captured + 1>> \o ready
        /\ micSawFullStalled' = (micSawFullStalled \/ (full(queue) /\ senderPc = "send"))
    /\ UNCHANGED <<micActive, queue, unfinished, putError, accepted, dropped,
                   senderPc, senderData, senderExc, cancelledBy, sent,
                   conn, inbox, serverSent, received, played, mainPc, exitPath, mainExc>>
    /\ UNCHANGED <<serVars, wavVars>>

\* mic_callback(indata, frames, time, status), run by the audio subsystem's
\* thread while the InputStream is open: print on status.input_overflow,
\* copy the buffer, schedule safe_put(pcm_bytes) on the loop and return.
MicCallback ==
    /\ micActive
    /\ captured < MaxCaptured
    /\ \E input_overflow \in BOOLEAN :
        /\ overflowPrints' = overflowPrints + (IF input_overflow THEN 1 ELSE 0)
        /\ captured' = captured + 1
        /\ ready' = Append(ready, captured + 1)
        /\ micSawFullStalled' = (micSawFullStalled \/ (full(queue) /\ senderPc = "send"))
    /\ UNCHANGED <<micActive, queue, unfinished, putError, accepted, dropped,
                   senderPc, senderData, senderExc, cancelledBy, sent,
                   conn, inbox, serverSent, received, played, mainPc, exitPath, mainExc>>
    /\ UNCHANGED <<serVars, wavVars>>

\* The event loop is free to run handles and tasks: audio_stream is not
\* inside speaker.write, a synchronous call that returns only when the
\* device has taken the buffer and that keeps the loop's thread meanwhile.
LoopFree == mainPc # "write"

\* The event loop runs the oldest scheduled handle: safe_put(item).
SafePut ==
    /\ LoopFree
    /\ ready # <<>>
    /\ LET item == Head(ready)
           r == safe_put(queue, item)
       IN /\ ready' = Tail(ready)
          /\ queue' = r.queue
          /\ putError' = (putError \/ r.raised)
          /\ accepted' = IF r.put THEN Append(accepted, item) ELSE accepted
          /\ unfinished' = IF r.put THEN unfinished + 1 ELSE unfinished
          /\ dropped' = IF r.put THEN dropped ELSE Append(dropped, item)
    /\ UNCHANGED <<captured, overflowPrints, micActive, micSawFullStalled,
                   senderPc, senderData, senderExc, cancelledBy, sent,
                   conn, inbox, serverSent, received, played, mainPc, exitPath, mainExc>>
    /\ UNCHANGED <<serVars, wavVars>>

(***************************************************************************)
(* The sender task                                                         *)
(***************************************************************************)
senderDone == senderPc \in {"failed", "cancelled"}

\* The exception websocket.send and websocket.recv raise on a closed connection.
connection_closed_exc ==
    IF conn = "closedOK" THEN "ConnectionClosedOK" ELSE "ConnectionClosedError"

\* A sender that goes on to dequeue and send after sender_task.cancel().
SenderGetSendIgnoringCancel ==
    /\ LoopFree
    /\ senderPc = "get"
    /\ queue # <<>>
    /\ queue' = Tail(queue)
    /\ senderData' = Head(queue)
    /\ sent' = Append(sent, Head(queue))
    /\ senderPc' = "send"
    /\ UNCHANGED <<captured, ready, overflowPrints, micActive, micSawFullStalled,
                   unfinished, putError, accepted, dropped, senderExc, cancelledBy,
                   conn, inbox, serverSent, received, played, mainPc, exitPath, mainExc>>
    /\ UNCHANGED <<serVars, wavVars>>

\* data = await queue.get(), then websocket.send(data) is entered: the get
\* returns only when the queue holds a chunk, and nothing runs between the
\* get returning and the call of send.
SenderGetSend ==
    /\ LoopFree
    /\ senderPc = "get"
    /\ cancelledBy = "none"
    /\ queue # <<>>
    /\ LET g == queue_get(queue)
       IN /\ queue' = g.queue
          /\ senderData' = g.item
          /\ sent' = Append(sent, g.item)
    /\ senderPc' = "send"
    /\ UNCHANGED <<captured, ready, overflowPrints, micActive, micSawFullStalled,
                   unfinished, putError, accepted, dropped, senderExc, cancelledBy,
                   conn, inbox, serverSent, received, played, mainPc, exitPath, mainExc>>
    /\ UNCHANGED <<serVars, wavVars>>

\* await websocket.send(data) returns; finally: queue.task_done(); the loop
\* goes back to queue.get().
SendComplete ==
    /\ LoopFree
    /\ senderPc = "send"
    /\ cancelledBy = "none"
    /\ conn = "open"
    /\ unfinished' = unfinished - 1
    /\ senderData' = 0
    /\ senderPc' = "get"
    /\ UNCHANGED <<captured, ready, overflowPrints, micActive, micSawFullStalled,
                   queue, putError, accepted, dropped, senderExc, cancelledBy, sent,
                   conn, inbox, serverSent, received, played, mainPc, exitPath, mainExc>>
    /\ UNCHANGED <<serVars, wavVars>>

\* await websocket.send(data) raises because the connection is closed;
\* finally: queue.task_done(); the exception leaves sender() and the task is
\* finished with it.
SendFail ==
    /\ LoopFree
    /\ senderPc = "send"
    /\ cancelledBy = "none"
    /\ conn # "open"
    /\ unfinished' = unfinished - 1
    /\ senderData' = 0
    /\ senderPc' = "failed"
    /\ senderExc' = connection_closed_exc
    /\ UNCHANGED <<captured, ready, overflowPrints, micActive, micSawFullStalled,
                   queue, putError, accepted, dropped, cancelledBy, sent,
                   conn, inbox, serverSent, received, played, mainPc, exitPath, mainExc>>
    /\ UNCHANGED <<serVars, wavVars>>

\* The cancellation requested by sender_task.cancel() reaches the task at
\* its await: CancelledError is raised in queue.get() (nothing is dequeued)
\* or in websocket.send() (finally: queue.task_done()), and ends the task.
SenderCancelled ==
    /\ LoopFree
    /\ senderPc \in {"get", "send"}
    /\ cancelledBy # "none"
    /\ unfinished' = IF senderPc = "send" THEN unfinished - 1 ELSE unfinished
    /\ senderData' = 0
    /\ senderPc' = "cancelled"
    /\ senderExc' = "CancelledError"
    /\ UNCHANGED <<captured, ready, overflowPrints, micActive, micSawFullStalled,
                   queue, putError, accepted, dropped, cancelledBy, sent,
                   conn, inbox, serverSent, received, played, mainPc, exitPath, mainExc>>
    /\ UNCHANGED <<serVars, wavVars>>

(***************************************************************************)
(* The connection, as the server and the network drive it                  *)
(***************************************************************************)
\* The frames the server may send as its n-th message: a binary frame of
\* one 16-bit sample (its low byte is n, so that frames differ), a binary
\* frame of a single byte, an empty binary frame, a text frame.
ServerFrames(n) == { [kind |-> "binary", bytes |-> <<n, 255>>],
                     [kind |-> "binary", bytes |-> <<n>>],
                     [kind |-> "binary", bytes |-> <<>>],
                     [kind |-> "text", text |-> "msg"] }

\* The server sends a frame; the connection buffers it until recv() takes it.
ServerSend ==
    /\ conn = "open"
    /\ serverSent < MaxRecv
    /\ \E f \in ServerFrames(serverSent + 1) : inbox' = Append(inbox, f)
    /\ serverSent' = serverSent + 1
    /\ UNCHANGED <<captured, ready, overflowPrints, micActive, micSawFullStalled,
                   queue, unfinished, putError, accepted, dropped,
                   senderPc, senderData, senderExc, cancelledBy, sent,
                   conn, received, played, mainPc, exitPath, mainExc>>
    /\ UNCHANGED <<serVars, wavVars>>

\* The connection closes while the client is streaming: cleanly (a close
\* handshake with a normal code) or abnormally.
ConnectionCloses ==
    /\ conn = "open"
    /\ mainPc \in {"recv", "write"}
    /\ conn' \in {"closedOK", "closedError"}
    /\ UNCHANGED <<captured, ready, overflowPrints, micActive, micSawFullStalled,
                   queue, unfinished, putError, accepted, dropped,
                   senderPc, senderData, senderExc, cancelledBy, sent,
                   inbox, serverSent, received, played, mainPc, exitPath, mainExc>>
    /\ UNCHANGED <<serVars, wavVars>>

(***************************************************************************)
(* audio_stream: the receive loop and what follows it                      *)
(***************************************************************************)
\* Leaving "async with websockets.connect(...)" closes the connection.
ConnAfterExit == IF conn = "open" THEN "closedOK" ELSE conn

\* The receive loop has ended by break or by an exception caught at lines
\* 51-54.  The with block closes the streams; sender_task.cancel() requests
\* the cancellation of a sender that is not finished; "await sender_task"
\* under suppress(CancelledError) then waits for it, or, when the sender has
\* already finished with an exception, raises that exception at once.
Shutdown(path) ==
    /\ exitPath' = path
    /\ micActive' = FALSE
    /\ IF senderDone
         THEN /\ cancelledBy' = cancelledBy
              /\ IF senderExc = "CancelledError"
                   THEN mainPc' = "returned" /\ mainExc' = mainExc
                   ELSE mainPc' = "raised" /\ mainExc' = senderExc
              /\ conn' = ConnAfterExit
         ELSE /\ cancelledBy' = "audio_stream"
              /\ mainPc' = "await"
              /\ mainExc' = mainExc
              /\ conn' = conn

\* np.frombuffer(buffer, dtype=np.int16) accepts a buffer whose size is a
\* multiple of the two bytes of an int16, and raises ValueError otherwise.
frombuffer_ok(bytes) == Len(bytes) % 2 = 0

\* np.frombuffer(buffer, dtype=np.int16): the little-endian signed 16-bit
\* samples of the buffer.
frombuffer_int16(bytes) ==
    [i \in 1..(Len(bytes) \div 2) |->
        LET u == bytes[2 * i - 1] + 256 * bytes[2 * i]
        IN IF u >= 32768 THEN u - 65536 ELSE u]

\* response_data = await websocket.recv() returns a buffered frame.  A
\* non-empty bytes frame goes through np.frombuffer and speaker.write: the
\* write is entered with the samples, or ValueError leaves the receive loop,
\* the with block (the streams close) and audio_stream, lines 56-58 not
\* being reached.  Any other frame is skipped.
RecvFrame ==
    /\ mainPc = "recv"
    /\ inbox # <<>>
    /\ LET response_data == Head(inbox)
           playable == response_data.kind = "binary" /\ Len(response_data.bytes) > 0
       IN /\ inbox' = Tail(inbox)
          /\ received' = Append(received, response_data)
          /\ IF playable /\ frombuffer_ok(response_data.bytes)
               THEN /\ played' = Append(played, frombuffer_int16(response_data.bytes))
                    /\ mainPc' = "write"
                    /\ UNCHANGED <<micActive, exitPath, mainExc>>
             ELSE IF playable
               THEN /\ played' = played
                    /\ mainPc' = "raised"
                    /\ mainExc' = "ValueError"
                    /\ exitPath' = "error"
                    /\ micActive' = FALSE
             ELSE UNCHANGED <<played, mainPc, micActive, exitPath, mainExc>>
    /\ UNCHANGED <<captured, ready, overflowPrints, micSawFullStalled,
                   queue, unfinished, putError, accepted, dropped,
                   senderPc, senderData, senderExc, cancelledBy, sent,
                   conn, serverSent>>
    /\ UNCHANGED <<serVars, wavVars>>

\* speaker.write(...) returns and the loop goes back to websocket.recv().
WriteDone ==
    /\ mainPc = "write"
    /\ mainPc' = "recv"
    /\ UNCHANGED <<captured, ready, overflowPrints, micActive, micSawFullStalled,
                   queue, unfinished, putError, accepted, dropped,
                   senderPc, senderData, senderExc, cancelledBy, sent,
                   conn, inbox, serverSent, received, played, exitPath, mainExc>>
    /\ UNCHANGED <<serVars, wavVars>>

\* websocket.recv() raises ConnectionClosedOK (the connection is closed
\* cleanly and no buffered frame is left): print, break, shutdown.
RecvClosedOK ==
    /\ mainPc = "recv"
    /\ inbox = <<>>
    /\ conn = "closedOK"
    /\ Shutdown("closedOK")
    /\ UNCHANGED <<captured, ready, overflowPrints, micSawFullStalled,
                   queue, unfinished, putError, accepted, dropped,
                   senderPc, senderData, senderExc, sent,
                   inbox, serverSent, received, played>>
    /\ UNCHANGED <<serVars, wavVars>>

\* websocket.recv() raises ConnectionClosedError: no except clause of lines
\* 48-54 matches, the exception leaves the with block (the streams close)
\* and audio_stream; lines 56-58 are not reached.
RecvError ==
    /\ mainPc = "recv"
    /\ inbox = <<>>
    /\ conn = "closedError"
    /\ exitPath' = "error"
    /\ micActive' = FALSE
    /\ mainPc' = "raised"
    /\ mainExc' = connection_closed_exc
    /\ UNCHANGED <<captured, ready, overflowPrints, micSawFullStalled,
                   queue, unfinished, putError, accepted, dropped,
                   senderPc, senderData, senderExc, cancelledBy, sent,
                   conn, inbox, serverSent, received, played>>
    /\ UNCHANGED <<serVars, wavVars>>

\* The task running audio_stream is cancelled while it waits in recv():
\* except asyncio.CancelledError: pass, then shutdown.
MainCancelled ==
    /\ mainPc = "recv"
    /\ Shutdown("cancelled")
    /\ UNCHANGED <<captured, ready, overflowPrints, micSawFullStalled,
                   queue, unfinished, putError, accepted, dropped,
                   senderPc, senderData, senderExc, sent,
                   inbox, serverSent, received, played>>
    /\ UNCHANGED <<serVars, wavVars>>

\* KeyboardInterrupt is raised inside the receive loop, in recv() or in
\* speaker.write(): except KeyboardInterrupt: print, then shutdown.
MainInterrupted ==
    /\ mainPc \in {"recv", "write"}
    /\ Shutdown("interrupted")
    /\ UNCHANGED <<captured, ready, overflowPrints, micSawFullStalled,
                   queue, unfinished, putError, accepted, dropped,
                   senderPc, senderData, senderExc, sent,
                   inbox, serverSent, received, played>>
    /\ UNCHANGED <<serVars, wavVars>>

\* "await sender_task" resumes once the sender task is cancelled:
\* CancelledError is suppressed and audio_stream returns.
MainJoin ==
    /\ mainPc = "await"
    /\ senderPc = "cancelled"
    /\ mainPc' = "returned"
    /\ conn' = ConnAfterExit
    /\ UNCHANGED <<captured, ready, overflowPrints, micActive, micSawFullStalled,
                   queue, unfinished, putError, accepted, dropped,
                   senderPc, senderData, senderExc, cancelledBy, sent,
                   inbox, serverSent, received, played, exitPath, mainExc>>
    /\ UNCHANGED <<serVars, wavVars>>

\* asyncio.run(audio_stream(...)): when audio_stream has raised, the runner
\* cancels the tasks that are left before it closes the loop.
RunnerCancelAll ==
    /\ mainPc = "raised"
    /\ ~senderDone
    /\ cancelledBy = "none"
    /\ cancelledBy' = "runner"
    /\ UNCHANGED <<captured, ready, overflowPrints, micActive, micSawFullStalled,
                   queue, unfinished, putError, accepted, dropped,
                   senderPc, senderData, senderExc, sent,
                   conn, inbox, serverSent, received, played, mainPc, exitPath, mainExc>>
    /\ UNCHANGED <<serVars, wavVars>>

(***************************************************************************)
(* The client's specification                                              *)
(***************************************************************************)
\* The state when the receive loop is first entered: the queue of line 11 is
\* empty, the sender task of line 25 waits in queue.get(), both streams of
\* lines 39-40 are open; the serializer is as constructed at bot.py:132.
Init ==
    /\ captured = 0 /\ ready = <<>> /\ overflowPrints = 0
    /\ micActive = TRUE /\ micSawFullStalled = FALSE
    /\ queue = <<>> /\ unfinished = 0 /\ putError = FALSE
    /\ accepted = <<>> /\ dropped = <<>>
    /\ senderPc = "get" /\ senderData = 0 /\ senderExc = "none" /\ cancelledBy = "none"
    /\ sent = <<>>
    /\ conn = "open" /\ inbox = <<>> /\ serverSent = 0
    /\ received = <<>> /\ played = <<>>
    /\ mainPc = "recv" /\ exitPath = "none" /\ mainExc = "none"
    /\ sample_rate = DefaultSampleRate /\ channels = DefaultChannels
    /\ serOps = 0
    /\ lastCall = [op |-> "init"]
    /\ lastCtl = [op |-> "init"]
    /\ atMalformed = [set |-> FALSE]
    /\ firstBinary = [set |-> FALSE]
    /\ wavWrites = <<>>
    /\ lastSave = [op |-> "init", calls |-> 0]

Next ==
    \/ MicCallback
    \/ SafePut
    \/ SenderGetSend
    \/ SendComplete
    \/ SendFail
    \/ SenderCancelled
    \/ ServerSend
    \/ ConnectionCloses
    \/ RecvFrame
    \/ WriteDone
    \/ RecvClosedOK
    \/ RecvError
    \/ MainCancelled
    \/ MainInterrupted
    \/ MainJoin
    \/ RunnerCancelAll

Spec == Init /\ [][Next]_vars

\* The event loop runs every task that is ready: a sender whose cancellation
\* was requested gets its CancelledError, and audio_stream resumes from
\* "await sender_task" once the sender task is done.
FairSpec == Spec /\ WF_vars(SenderCancelled) /\ WF_vars(MainJoin)

(***************************************************************************)
(* The server frame codec: RawPCMSerializer                                *)
(***************************************************************************)
\* Binary payloads a client may send.
BinaryPayloads == { [kind |-> "binary", bytes |-> <<>>],
                    [kind |-> "binary", bytes |-> <<1, 2, 3, 4>>] }

\* Text payloads a client may send.
TextPayloads == { [kind |-> "text", text |-> t] : t \in
    { "{not json",
      "[1, 2]",
      "{\"type\": \"stop\"}",
      "{\"audio_in_sample_rate\": 8000}",
      "{\"type\": \"start\"}",
      "{\"type\": \"start\", \"audio_in_sample_rate\": 44100}",
      "{\"type\": \"start\", \"audio_in_sample_rate\": 8000, \"audio_in_channels\": 1}",
      "{\"type\": \"start\", \"audio_in_sample_rate\": 48000, \"audio_in_channels\": 2}" } }

Payloads == BinaryPayloads \cup TextPayloads

\* StartFrame.audio_in_sample_rate values setup may be called with; 0 is unset.
SetupRates == {0, 16000, 24000}

\* json.loads(text) on the text payloads above: the parsed value, or
\* JSONDecodeError.
json_loads(text) ==
    CASE text = "{not json" -> [ok |-> FALSE]
      [] text = "[1, 2]" -> [ok |-> TRUE, type |-> "list"]
      [] text = "{\"type\": \"stop\"}" ->
            [ok |-> TRUE, type |-> "dict", obj |-> [type |-> "stop"]]
      [] text = "{\"audio_in_sample_rate\": 8000}" ->
            [ok |-> TRUE, type |-> "dict", obj |-> [audio_in_sample_rate |-> 8000]]
      [] text = "{\"type\": \"start\"}" ->
            [ok |-> TRUE, type |-> "dict", obj |-> [type |-> "start"]]
      [] text = "{\"type\": \"start\", \"audio_in_sample_rate\": 44100}" ->
            [ok |-> TRUE, type |-> "dict",
             obj |-> [type |-> "start", audio_in_sample_rate |-> 44100]]
      [] text = "{\"type\": \"start\", \"audio_in_sample_rate\": 8000, \"audio_in_channels\": 1}" ->
            [ok |-> TRUE, type |-> "dict",
             obj |-> [type |-> "start", audio_in_sample_rate |-> 8000, audio_in_channels |-> 1]]
      [] text = "{\"type\": \"start\", \"audio_in_sample_rate\": 48000, \"audio_in_channels\": 2}" ->
            [ok |-> TRUE, type |-> "dict",
             obj |-> [type |-> "start", audio_in_sample_rate |-> 48000, audio_in_channels |-> 2]]
      [] OTHER -> [ok |-> FALSE]

\* dict.get(key, default)
dict_get(obj, key, default) == IF key \in DOMAIN obj THEN obj[key] ELSE default

\* The frames deserialize returns.
None == [frame |-> "None"]
InputAudioRawFrame(audio, rate, num_channels) ==
    [frame |-> "InputAudioRawFrame", audio |-> audio,
     sample_rate |-> rate, num_channels |-> num_channels]
StartFrame(rate, num_channels) ==
    [frame |-> "StartFrame", audio_in_sample_rate |-> rate,
     audio_in_channels |-> num_channels]

\* What a call leaves behind: the value returned, the exception raised
\* ("none" when none) and self._sample_rate, self._channels after it.
Outcome(result, raised, rate, num_channels) ==
    [result |-> result, raised |-> raised, sample_rate |-> rate, channels |-> num_channels]

\* A deserialize whose start branch forgets audio_in_channels.
deserialize_rate_only(data, rate, num_channels) ==
    IF data.kind = "binary"
      THEN Outcome(InputAudioRawFrame(data.bytes, rate, num_channels), "none", rate, num_channels)
      ELSE LET parsed == json_loads(data.text)
           IN IF ~parsed.ok THEN Outcome(None, "none", rate, num_channels)
              ELSE IF parsed.type # "dict"
                THEN Outcome(None, "AttributeError", rate, num_channels)
              ELSE IF dict_get(parsed.obj, "type", "None") = "start"
                THEN LET r == dict_get(parsed.obj, "audio_in_sample_rate", rate)
                     IN Outcome(StartFrame(r, num_channels), "none", r, num_channels)
              ELSE Outcome(None, "none", rate, num_channels)

\* A deserialize that falls back to the constructor's defaults when the
\* text does not parse.
deserialize_reset_on_error(data, rate, num_channels) ==
    IF data.kind = "binary"
      THEN Outcome(InputAudioRawFrame(data.bytes, rate, num_channels), "none", rate, num_channels)
      ELSE LET parsed == json_loads(data.text)
           IN IF ~parsed.ok THEN Outcome(None, "none", DefaultSampleRate, DefaultChannels)
              ELSE IF parsed.type # "dict"
                THEN Outcome(None, "AttributeError", rate, num_channels)
              ELSE IF dict_get(parsed.obj, "type", "None") = "start"
                THEN LET r == dict_get(parsed.obj, "audio_in_sample_rate", rate)
                         c == dict_get(parsed.obj, "audio_in_channels", num_channels)
                     IN Outcome(StartFrame(r, c), "none", r, c)
              ELSE Outcome(None, "none", rate, num_channels)

\* deserialize(self, data) with self._sample_rate = rate and
\* self._channels = num_channels.  bytes: an InputAudioRawFrame tagged with
\* them.  str: json.loads; JSONDecodeError is passed over; obj.get on a
\* value that is no dict raises AttributeError, which nothing catches; a
\* dict of type "start" sets the parameters it carries and returns a
\* StartFrame; anything else returns None.
deserialize(data, rate, num_channels) ==
    IF data.kind = "binary"
      THEN Outcome(InputAudioRawFrame(data.bytes, rate, num_channels), "none", rate, num_channels)
      ELSE LET parsed == json_loads(data.text)
           IN IF ~parsed.ok THEN Outcome(None, "none", rate, num_channels)
              ELSE IF parsed.type # "dict"
                THEN Outcome(None, "AttributeError", rate, num_channels)
              ELSE IF dict_get(parsed.obj, "type", "None") = "start"
                THEN LET r == dict_get(parsed.obj, "audio_in_sample_rate", rate)
                         c == dict_get(parsed.obj, "audio_in_channels", num_channels)
                     IN Outcome(StartFrame(r, c), "none", r, c)
              ELSE Outcome(None, "none", rate, num_channels)

\* A setup that keeps the negotiated rate whenever there is one.
setup_keeps_negotiated(audio_in_sample_rate, rate) ==
    IF rate # 0 THEN rate ELSE audio_in_sample_rate

\* setup(self, frame): frame.audio_in_sample_rate or self._sample_rate.
setup(audio_in_sample_rate, rate) ==
    IF audio_in_sample_rate # 0 THEN audio_in_sample_rate ELSE rate

\* The text is a start-control message that carries both parameters.
IsFullStart(data) ==
    /\ data.kind = "text"
    /\ LET parsed == json_loads(data.text)
       IN /\ parsed.ok
          /\ parsed.type = "dict"
          /\ {"type", "audio_in_sample_rate", "audio_in_channels"} \subseteq DOMAIN parsed.obj
          /\ parsed.obj.type = "start"

\* The text is a JSON object of type "start", whatever else it carries.
IsStart(data) ==
    /\ data.kind = "text"
    /\ LET parsed == json_loads(data.text)
       IN /\ parsed.ok
          /\ parsed.type = "dict"
          /\ "type" \in DOMAIN parsed.obj
          /\ parsed.obj.type = "start"

IsMalformed(data) == data.kind = "text" /\ ~json_loads(data.text).ok

\* The transport hands an inbound payload to the serializer.
Deserialize ==
    /\ serOps < MaxSerOps
    /\ \E payload \in Payloads :
        LET out == deserialize(payload, sample_rate, channels)
        IN /\ sample_rate' = out.sample_rate
           /\ channels' = out.channels
           /\ lastCall' = [op |-> "deserialize", data |-> payload,
                           result |-> out.result, raised |-> out.raised,
                           before |-> [sample_rate |-> sample_rate, channels |-> channels]]
           /\ lastCtl' = IF IsFullStart(payload)
                           THEN [op |-> "start",
                                 r |-> json_loads(payload.text).obj.audio_in_sample_rate,
                                 c |-> json_loads(payload.text).obj.audio_in_channels]
                         ELSE IF IsStart(payload) THEN [op |-> "partial start"]
                         ELSE lastCtl
           /\ atMalformed' = IF IsMalformed(payload)
                               THEN [set |-> TRUE, sample_rate |-> sample_rate, channels |-> channels]
                             ELSE IF IsStart(payload) THEN [set |-> FALSE]
                             ELSE atMalformed
           /\ firstBinary' = IF payload.kind = "binary" /\ ~firstBinary.set
                               THEN [set |-> TRUE, sample_rate |-> out.result.sample_rate,
                                     num_channels |-> out.result.num_channels]
                             ELSE firstBinary
    /\ serOps' = serOps + 1
    /\ UNCHANGED <<clientVars, wavVars>>

\* The pipeline starts and calls setup with its StartFrame.
Setup ==
    /\ serOps < MaxSerOps
    /\ \E audio_in_sample_rate \in SetupRates :
        /\ sample_rate' = setup(audio_in_sample_rate, sample_rate)
        /\ lastCall' = [op |-> "setup", audio_in_sample_rate |-> audio_in_sample_rate,
                        before |-> [sample_rate |-> sample_rate, channels |-> channels]]
        /\ lastCtl' = IF audio_in_sample_rate # 0
                        THEN [op |-> "setup", r |-> audio_in_sample_rate,
                              announced |-> IF lastCtl.op = "start" THEN lastCtl.r ELSE 0]
                        ELSE lastCtl
        /\ atMalformed' = IF audio_in_sample_rate # 0 THEN [set |-> FALSE] ELSE atMalformed
    /\ channels' = channels
    /\ firstBinary' = firstBinary
    /\ serOps' = serOps + 1
    /\ UNCHANGED <<clientVars, wavVars>>

SerializerNext ==
    \/ Deserialize
    \/ Setup

SerializerSpec == Init /\ [][SerializerNext]_vars

(***************************************************************************)
(* The server recording: save_audio                                        *)
(***************************************************************************)
\* Audio the buffer processor may hand to on_audio_data, the empty one included.
AudioBytes == {1, 255}
Audios == UNION {[1..n -> AudioBytes] : n \in 0..MaxAudioLen}
SaveRates == {16000, 24000}
SaveChannels == {1, 2}

\* What wave writes for setsampwidth(2), setnchannels, setframerate and
\* writeframes(audio): the 44 byte header, patched after the data is written
\* to the number of bytes written, then the data as given.
wave_file(audio, rate, num_channels) ==
    [riffSize   |-> 36 + Len(audio),
     format     |-> 1,
     nchannels  |-> num_channels,
     framerate  |-> rate,
     byteRate   |-> num_channels * rate * 2,
     blockAlign |-> num_channels * 2,
     sampwidth  |-> 2,
     bits       |-> 16,
     dataSize   |-> Len(audio),
     data       |-> audio]

\* A save_audio that skips a recording of a single byte.
save_audio_skip_short(files, audio, rate, num_channels) ==
    IF Len(audio) > 1 THEN Append(files, wave_file(audio, rate, num_channels))
    ELSE files

\* save_audio(server_name, audio, sample_rate, num_channels): the files on
\* disk after the call.
save_audio(files, audio, rate, num_channels) ==
    IF Len(audio) > 0 THEN Append(files, wave_file(audio, rate, num_channels))
    ELSE files

\* on_audio_data: the buffer processor hands over what it accumulated.
OnAudioData ==
    /\ Len(wavWrites) < MaxSaves
    /\ lastSave.calls < MaxSaves
    /\ \E audio \in Audios, rate \in SaveRates, num_channels \in SaveChannels :
         /\ wavWrites' = save_audio(wavWrites, audio, rate, num_channels)
         /\ lastSave' = [op |-> "save", audio |-> audio, sample_rate |-> rate,
                         num_channels |-> num_channels, before |-> wavWrites,
                         calls |-> lastSave.calls + 1]
    /\ UNCHANGED <<clientVars, serVars>>

SaveAudioNext == OnAudioData

SaveAudioSpec == Init /\ [][SaveAudioNext]_vars

(***************************************************************************)
(* Claims about the client streamer                                        *)
(***************************************************************************)
\* C1: the chunks handed to websocket.send are, at every point, a prefix of
\* the chunks accepted into the queue, in acceptance order; what is accepted
\* and not yet handed over is exactly the queue's content (nothing skipped,
\* nothing reordered), and the sender holds at most the one chunk it handed
\* over last.
C1_SentIsPrefixOfAccepted ==
    /\ IsPrefix(sent, accepted)
    /\ accepted = sent \o queue
    /\ senderPc = "send" => (sent # <<>> /\ senderData = sent[Len(sent)])
    /\ senderPc # "send" => senderData = 0

\* C1's case: two chunks were sent in turn while another waited in the queue
\* and one had been dropped.
C1_Witness ==
    /\ Len(sent) >= 2
    /\ queue # <<>>
    /\ dropped # <<>>

\* C2: the queue never holds more than its capacity and no put_nowait of
\* safe_put raises QueueFull.
C2_QueueBoundedNoQueueFull ==
    /\ Len(queue) <= QueueMaxsize
    /\ ~putError

\* C2's case: safe_put ran against a full queue (it dropped a chunk) and the
\* queue is full again after the sender has taken chunks from it.
C2_Witness ==
    /\ Len(queue) = QueueMaxsize
    /\ dropped # <<>>
    /\ sent # <<>>

\* A step of the event loop that runs safe_put while the queue is full.
SafePutOnFull == ready # <<>> /\ ready' = Tail(ready) /\ full(queue)

\* The session goes on across a step: neither task ends, nothing is raised.
SessionContinues ==
    /\ mainPc' = mainPc /\ mainExc' = mainExc /\ exitPath' = exitPath
    /\ senderPc' = senderPc /\ senderExc' = senderExc
    /\ putError' = putError

\* C3 as stated: a chunk that reaches safe_put while the queue is full is
\* dropped, an overflow line is printed for that drop, the queue is
\* unchanged and the session continues.
C3_DropIsLogged ==
    [][SafePutOnFull =>
        /\ queue' = queue
        /\ dropped' = Append(dropped, Head(ready))
        /\ overflowPrints' = overflowPrints + 1
        /\ SessionContinues]_vars

\* C3 as amended: a chunk that reaches safe_put while the queue is full is
\* dropped silently: the queue and the accepted chunks are unchanged,
\* nothing is printed for the drop and the session continues.  The only
\* overflow line is the one mic_callback prints, in the step that captures a
\* buffer, when the audio subsystem reports status.input_overflow.
C3_DropIsSilent ==
    [][/\ SafePutOnFull =>
            /\ queue' = queue
            /\ accepted' = accepted
            /\ unfinished' = unfinished
            /\ dropped' = Append(dropped, Head(ready))
            /\ overflowPrints' = overflowPrints
            /\ SessionContinues
       /\ overflowPrints' # overflowPrints => captured' = captured + 1]_vars

\* C3's case: a chunk was dropped and the receive loop is still running with
\* the sender alive.
C3_Witness ==
    /\ dropped # <<>>
    /\ mainPc = "recv"
    /\ senderPc \in {"get", "send"}

\* C4: while the input stream is open (and the audio subsystem has a buffer
\* left to deliver) a mic_callback step can be taken, whatever the queue,
\* the sender and the connection are doing.
C4_CaptureNeverBlocks ==
    (micActive /\ captured < MaxCaptured) => ENABLED MicCallback

\* C4's case: a mic_callback ran to completion while the queue was full and
\* the sender task was inside websocket.send.
C4_Witness == micSawFullStalled

\* The receive loop has ended: lines 56-58, the return or the raise follow.
ShutdownActive == mainPc \notin {"recv", "write"}

\* C5 as stated (its safety part): no chunk is handed to websocket.send
\* twice, and the queue holds chunks that will never be sent (the sender
\* task is finished) only while the session is being shut down.
C5_SentOnceUnsentOnlyAtShutdown ==
    /\ NoDuplicates(sent)
    /\ (senderDone /\ queue # <<>>) => ShutdownActive

\* C6 as stated: once the sender task has died from a failed
\* websocket.send, the client neither captures another buffer nor receives
\* another frame: the failure has ended the session.
C6_SendFailureEndsSession ==
    [][senderPc = "failed" =>
        /\ captured' = captured
        /\ accepted' = accepted
        /\ received' = received]_vars

\* C7 as stated: when the receive loop has ended on a clean close,
\* audio_stream does not raise; it waits for the cancelled sender task and,
\* once it is over, it has returned normally with the sender task cancelled.
C7_CleanCloseReturnsNormally ==
    exitPath = "closedOK" =>
        /\ mainExc = "none"
        /\ mainPc \in {"await", "returned"}
        /\ mainPc = "returned" => senderPc = "cancelled"

\* C8 as stated: whichever way the receive loop ends, audio_stream is not
\* left before it has cancelled the sender task and waited for it to finish.
C8_EveryExitJoinsSender ==
    mainPc \in {"returned", "raised"} =>
        /\ senderDone
        /\ senderPc = "cancelled" => cancelledBy = "audio_stream"

(***************************************************************************)
(* Claims about the frame codec                                            *)
(***************************************************************************)
\* C9: after a start-control message carrying audio_in_sample_rate = r and
\* audio_in_channels = c, and until another start message or a setup call
\* sets the parameters, every binary payload comes back as an
\* InputAudioRawFrame with the payload's bytes, sample rate r and c
\* channels; the start message itself comes back as a StartFrame with r, c.
C9_StartMessageTagsBinaryFrames ==
    /\ (lastCall.op = "deserialize" /\ lastCtl.op = "start" /\ lastCall.data.kind = "binary") =>
          /\ lastCall.raised = "none"
          /\ lastCall.result = InputAudioRawFrame(lastCall.data.bytes, lastCtl.r, lastCtl.c)
    /\ (lastCall.op = "deserialize" /\ IsFullStart(lastCall.data)) =>
          /\ lastCall.raised = "none"
          /\ lastCall.result = StartFrame(lastCtl.r, lastCtl.c)

\* C9's case: a non-empty binary payload was deserialized under parameters
\* a start message had set to values that are not the defaults, the
\* parameters having been something else before that message.
C9_Witness ==
    /\ lastCall.op = "deserialize"
    /\ lastCall.data.kind = "binary"
    /\ lastCall.data.bytes # <<>>
    /\ lastCtl.op = "start"
    /\ lastCtl.r # DefaultSampleRate
    /\ lastCtl.c # DefaultChannels
    /\ serOps >= 3

\* C10: a text payload that does not parse as JSON returns None, raises
\* nothing and leaves both parameters as they were; binary payloads that
\* follow it (no start message or setup call in between) are tagged with
\* the parameters in force before it.
C10_MalformedTextChangesNothing ==
    /\ (lastCall.op = "deserialize" /\ IsMalformed(lastCall.data)) =>
          /\ lastCall.result = None
          /\ lastCall.raised = "none"
          /\ sample_rate = lastCall.before.sample_rate
          /\ channels = lastCall.before.channels
    /\ (lastCall.op = "deserialize" /\ atMalformed.set /\ lastCall.data.kind = "binary") =>
          lastCall.result = InputAudioRawFrame(lastCall.data.bytes,
                                               atMalformed.sample_rate, atMalformed.channels)

\* C10's case: a binary payload was deserialized after an unparseable text
\* that arrived while the parameters were not the defaults.
C10_Witness ==
    /\ lastCall.op = "deserialize"
    /\ lastCall.data.kind = "binary"
    /\ atMalformed.set
    /\ atMalformed.sample_rate # DefaultSampleRate
    /\ atMalformed.channels # DefaultChannels

\* C11 as stated: once a binary payload has been interpreted, every later
\* binary payload of the session is tagged with the same sample rate and
\* channel count as that first one, whatever payloads and setup calls come
\* in between.
C11_ParametersFixedAfterFirstBinary ==
    (lastCall.op = "deserialize" /\ lastCall.data.kind = "binary" /\ firstBinary.set) =>
        /\ lastCall.result.sample_rate = firstBinary.sample_rate
        /\ lastCall.result.num_channels = firstBinary.num_channels

(***************************************************************************)
(* Claims about the receive loop, the hand-off and the teardown            *)
(***************************************************************************)
\* ndarray.tobytes() of int16 samples: two little-endian bytes per sample.
int16_tobytes(samples) ==
    [k \in 1..(2 * Len(samples)) |->
        LET v == samples[(k + 1) \div 2]
            u == IF v < 0 THEN v + 65536 ELSE v
        IN IF k % 2 = 1 THEN u % 256 ELSE u \div 256]

\* isinstance(response_data, (bytes, bytearray)) and len(response_data)
IsNonEmptyBinary(frame) == frame.kind = "binary" /\ Len(frame.bytes) > 0

\* C12 as stated: the buffers written to the speaker are, in order, the
\* non-empty binary frames received so far (each buffer holds the bytes of
\* its frame), and a frame that is empty or text does not end the loop
\* with an error.
C12_PlayedIsNonEmptyBinaryReceived ==
    LET frames == SelectSeq(received, IsNonEmptyBinary)
    IN /\ Len(played) = Len(frames)
       /\ \A i \in 1..Len(played) :
            i <= Len(frames) => int16_tobytes(played[i]) = frames[i].bytes
       /\ (received # <<>> /\ ~IsNonEmptyBinary(received[Len(received)])) =>
            mainExc # "ValueError"

\* A step of the event loop that runs the oldest safe_put handle.
EnqueueAttempt == ready # <<>> /\ ready' = Tail(ready)

\* C13: never more chunks transmitted than accepted, nor more accepted than
\* captured; the transmitted chunks are in their order of acceptance; an
\* enqueue attempt fails to accept its chunk only when the queue holds
\* exactly its capacity at that moment, and accepts it otherwise.
C13_CountsAndDropOnlyWhenFull ==
    /\ [](/\ Len(sent) <= Len(accepted)
          /\ Len(accepted) <= captured
          /\ IsPrefix(sent, accepted))
    /\ [][EnqueueAttempt =>
            IF Len(queue) = QueueMaxsize
              THEN accepted' = accepted /\ dropped' = Append(dropped, Head(ready))
              ELSE accepted' = Append(accepted, Head(ready)) /\ dropped' = dropped]_vars

\* C13's case: every delivered buffer has reached its enqueue attempt, one
\* was refused and at least two were transmitted.
C13_Witness ==
    /\ captured = MaxCaptured
    /\ ready = <<>>
    /\ dropped # <<>>
    /\ Len(sent) >= 2
    /\ Len(accepted) < captured

\* C14: save_audio writes a file exactly when the audio is not empty; the
\* file declares the given channel count (1 for mono), a sample width of 2
\* bytes and the given frame rate, and its data section is the input bytes;
\* for empty audio the files are left as they were.
C14_WavWrittenIffAudio ==
    lastSave.op = "save" =>
        IF Len(lastSave.audio) > 0
          THEN /\ Len(wavWrites) = Len(lastSave.before) + 1
               /\ SubSeq(wavWrites, 1, Len(lastSave.before)) = lastSave.before
               /\ LET f == wavWrites[Len(wavWrites)]
                  IN /\ f.nchannels = lastSave.num_channels
                     /\ lastSave.num_channels = 1 => f.nchannels = 1
                     /\ f.sampwidth = 2 /\ f.bits = 16
                     /\ f.framerate = lastSave.sample_rate
                     /\ f.dataSize = Len(lastSave.audio)
                     /\ f.data = lastSave.audio
          ELSE wavWrites = lastSave.before

\* C14's case: a mono recording of one byte was written after an empty one
\* wrote nothing.
C14_Witness ==
    /\ lastSave.op = "save" /\ lastSave.calls = 2
    /\ Len(lastSave.audio) = 1 /\ lastSave.num_channels = 1
    /\ lastSave.before = <<>>
    /\ Len(wavWrites) = 1

\* C15: once sender_task.cancel() has been called, no chunk is handed to
\* websocket.send any more, so what the queue holds and the chunk of an
\* interrupted send stay untransmitted; and the teardown ends: the sender
\* task finishes cancelled and audio_stream leaves "await sender_task",
\* whatever the queue holds.
C15_TeardownDiscardsPending ==
    /\ [][cancelledBy # "none" => sent' = sent /\ cancelledBy' = cancelledBy]_vars
    /\ [][senderPc = "cancelled" => senderPc' = "cancelled"]_vars
    /\ (cancelledBy # "none") ~> (senderPc = "cancelled" /\ mainPc # "await")

\* C15's case: audio_stream has returned from a teardown that found the
\* queue full, after at least one chunk had been sent.
C15_Witness ==
    /\ mainPc = "returned"
    /\ cancelledBy = "audio_stream"
    /\ senderPc = "cancelled"
    /\ Len(queue) = QueueMaxsize
    /\ sent # <<>>

\* C16: neither direction blocks the other.  While the sender is inside a
\* send, a frame the connection holds can be received; while the receive
\* loop waits in recv() or is inside speaker.write(), a sender that has a
\* chunk to take can dequeue and send it, and a scheduled safe_put can run.
C16_DirectionsDoNotBlockEachOther ==
    /\ (senderPc = "send" /\ mainPc = "recv" /\ inbox # <<>>) => ENABLED RecvFrame
    /\ (mainPc \in {"recv", "write"} /\ senderPc = "get" /\ cancelledBy = "none"
            /\ queue # <<>>) => ENABLED SenderGetSend
    /\ (mainPc \in {"recv", "write"} /\ ready # <<>>) => ENABLED SafePut

(***************************************************************************)
(* Claims about setup and about the codec's totality                       *)
(***************************************************************************)
\* C17: setup sets the sample rate to the pipeline's input rate when that
\* rate is not zero, keeps the current rate when it is zero, and leaves the
\* channel count alone; a binary payload that follows a setup with a rate
\* is tagged with that rate, whatever a start message announced before it.
C17_SetupOverridesNegotiatedRate ==
    /\ lastCall.op = "setup" =>
        /\ sample_rate = IF lastCall.audio_in_sample_rate # 0
                           THEN lastCall.audio_in_sample_rate
                           ELSE lastCall.before.sample_rate
        /\ channels = lastCall.before.channels
    /\ (lastCall.op = "deserialize" /\ lastCall.data.kind = "binary"
            /\ lastCtl.op = "setup") =>
        lastCall.result.sample_rate = lastCtl.r

\* C17's case: a start message announced one rate, setup ran with another,
\* and the binary payload after it carries the pipeline's rate.
C17_Witness ==
    /\ lastCall.op = "deserialize" /\ lastCall.data.kind = "binary"
    /\ lastCtl.op = "setup"
    /\ lastCtl.announced # 0 /\ lastCtl.announced # lastCtl.r
    /\ lastCall.result.sample_rate # lastCtl.announced

\* C18: deserialize never raises, whatever the payload; a text payload that
\* is not a start-control message returns no frame and leaves the sample
\* rate and the channel count as they were.
C18_DeserializeIsTotal ==
    lastCall.op = "deserialize" =>
        /\ lastCall.raised = "none"
        /\ (lastCall.data.kind = "text" /\ ~IsStart(lastCall.data)) =>
            /\ lastCall.result = None
            /\ sample_rate = lastCall.before.sample_rate
            /\ channels = lastCall.before.channels

(***************************************************************************)
(* Claims about what the client holds between capture and transmission     *)
(***************************************************************************)
\* C19: the chunks handed off by mic_callback and neither sent nor dropped
\* yet, those of the scheduled safe_put handles together with those in the
\* queue, never number more than the queue's capacity.
C19_PendingBoundedByCapacity == Len(ready) + Len(queue) <= QueueMaxsize

\* The chunks are numbered in capture order: s is in capture order.
InCaptureOrder(s) == \A i, j \in 1..Len(s) : i < j => s[i] < s[j]

\* A step of the capture thread: mic_callback has run once more.
CaptureStep == captured' # captured

\* C20: chunks reach the enqueue step in the order mic_callback received
\* them, so the accepted chunks are a subsequence of the captured ones in
\* capture order; and a step of the capture thread performs no put and no
\* get on the queue.
C20_HandoffKeepsCaptureOrder ==
    /\ [](/\ InCaptureOrder(accepted)
          /\ InCaptureOrder(ready)
          /\ Range(accepted) \subseteq 1..captured
          /\ Range(accepted) \cup Range(dropped) = 1..(captured - Len(ready))
          /\ Range(ready) = (captured - Len(ready) + 1)..captured)
    /\ [][EnqueueAttempt => Head(ready) = Len(accepted) + Len(dropped) + 1]_vars
    /\ [][CaptureStep => /\ queue' = queue /\ unfinished' = unfinished
                         /\ accepted' = accepted /\ dropped' = dropped
                         /\ sent' = sent /\ putError' = putError]_vars

\* C20's case: every captured chunk has reached its enqueue step, one was
\* scheduled while an older handle was still waiting, and a chunk between
\* two accepted ones was refused.
C20_Witness ==
    /\ captured = MaxCaptured /\ ready = <<>>
    /\ Len(accepted) >= 3
    /\ \E i \in 1..(Len(accepted) - 1) : accepted[i + 1] > accepted[i] + 1
====
